---- MODULE Spec2Model ----
(***************************************************************************)
(* Model of sort_radar.main (src/sort_radar.py): homogenization of a       *)
(* polar radar volume.  Every sweep is de-duplicated (361 -> 360 rays),    *)
(* sorted by azimuth, resampled onto the ray count of the lowest sweep,    *)
(* range-masked and minimum-masked, and the result is written back into    *)
(* the radar object.                                                       *)
(*                                                                         *)
(* Numbers are exact rationals <<n, d>> in lowest terms (d > 0): the       *)
(* float64 rounding error of numpy is not modelled, everything else is.    *)
(* Arrays are sequences indexed from 1; numpy index k is position k + 1.   *)
(***************************************************************************)
EXTENDS Integers, Sequences, FiniteSets, TLC

(***************************************************************************)
(* Bounds of the model.                                                    *)
(***************************************************************************)
MaxSweeps == 2
MaxRays == 3
NumGates == 2
NumFields == 2
MaxRuns == 2

(***************************************************************************)
(* Exact rational arithmetic.                                              *)
(***************************************************************************)
Abs(i) == IF i < 0 THEN -i ELSE i

RECURSIVE GCD(_, _)
GCD(a, b) == IF b = 0 THEN a ELSE GCD(b, a % b)

Q(n, d) ==
  LET s == IF d < 0 THEN -1 ELSE 1
      g == GCD(Abs(n), Abs(d))
  IN  <<(s * n) \div g, (s * d) \div g>>

IntQ(i) == <<i, 1>>
QAdd(a, b) == Q(a[1] * b[2] + b[1] * a[2], a[2] * b[2])
QSub(a, b) == Q(a[1] * b[2] - b[1] * a[2], a[2] * b[2])
QMul(a, b) == Q(a[1] * b[1], a[2] * b[2])
QDiv(a, b) == Q(a[1] * b[2], a[2] * b[1])
QLt(a, b) == a[1] * b[2] < b[1] * a[2]
QLe(a, b) == a[1] * b[2] <= b[1] * a[2]

\* numpy.round(v, 3): to the nearest multiple of 1/1000, ties to the even one.
Round3(v) ==
  LET t == v[1] * 1000
      q == t \div v[2]
      rem == t - q * v[2]
  IN  IF 2 * rem < v[2] THEN Q(q, 1000)
      ELSE IF 2 * rem > v[2] THEN Q(q + 1, 1000)
      ELSE IF q % 2 = 0 THEN Q(q, 1000) ELSE Q(q + 1, 1000)

\* ndarray.astype(dtype): float64 keeps a float64 value, int32 truncates
\* toward zero.
AsType(v, dtype) ==
  IF dtype = "float64" THEN v
  ELSE IF v[1] >= 0 THEN IntQ(v[1] \div v[2])
  ELSE IntQ(-((-v[1]) \div v[2]))

(***************************************************************************)
(* Sequence helpers.                                                       *)
(***************************************************************************)
\* A sequence given by a rule, as a tuple of its entries (each entry is then
\* computed once, however often it is read).
Arr(f) == f \o <<>>

Slice(a, lo, hi) == SubSeq(a, lo, hi)

RECURSIVE Flatten(_)
Flatten(rows) == IF rows = <<>> THEN <<>> ELSE Head(rows) \o Flatten(Tail(rows))

Take(a, idx) == Arr([k \in 1..Len(idx) |-> a[idx[k]]])

\* Binary searches over sorted data.  FirstGE: the least j in lo..hi + 1 with
\* a[q[j]] >= key; FirstGT: the least i in lo..hi + 1 with pos[i] > k.
RECURSIVE FirstGE(_, _, _, _, _)
FirstGE(a, q, key, lo, hi) ==
  IF lo > hi THEN lo
  ELSE LET mid == (lo + hi) \div 2
       IN  IF QLt(a[q[mid]], key) THEN FirstGE(a, q, key, mid + 1, hi)
           ELSE FirstGE(a, q, key, lo, mid - 1)

RECURSIVE FirstGT(_, _, _, _)
FirstGT(pos, k, lo, hi) ==
  IF lo > hi THEN lo
  ELSE LET mid == (lo + hi) \div 2
       IN  IF pos[mid] <= k THEN FirstGT(pos, k, mid + 1, hi)
           ELSE FirstGT(pos, k, lo, mid - 1)

\* numpy.argsort: the permutation that sorts a ascending.  Equal keys keep
\* their input order (merge sort; p and q are sorted index runs, every index
\* of p smaller than every index of q).
Merge(a, p, q) ==
  LET posP == Arr([i \in 1..Len(p) |-> i + FirstGE(a, q, a[p[i]], 1, Len(q)) - 1])
  IN  Arr([k \in 1..(Len(p) + Len(q)) |->
             LET i == FirstGT(posP, k, 1, Len(p)) - 1
             IN  IF i >= 1 /\ posP[i] = k THEN p[i] ELSE q[k - i]])

RECURSIVE SortIdx(_, _, _)
SortIdx(a, lo, hi) ==
  IF lo > hi THEN <<>>
  ELSE IF lo = hi THEN <<lo>>
  ELSE LET mid == (lo + hi) \div 2
       IN  Merge(a, SortIdx(a, lo, mid), SortIdx(a, mid + 1, hi))

\* A sort that leaves the rays in the order they were delivered in.
ArgSortM(a) == Arr([k \in 1..Len(a) |-> k])

ArgSort(a) == SortIdx(a, 1, Len(a))

Min2(a, b) == IF a <= b THEN a ELSE b

(***************************************************************************)
(* numpy and scipy operations used by main.                                *)
(***************************************************************************)
\* The ray count of the vendor artifact: a full circle plus one duplicate ray.
DuplicateRays == 361

\* A de-duplication that shortens every array of 361 rays or more.
DedupM(a) == IF Len(a) >= 361 THEN SubSeq(a, 1, Len(a) - 1) ELSE a

\* if a.shape[0] == 361: a = np.delete(a, [-1], axis=0)
Dedup(a) == IF Len(a) = DuplicateRays THEN SubSeq(a, 1, Len(a) - 1) ELSE a

\* a[start:stop] of Python, start and stop counted from 0 and clamped.
PySlice(a, start, stop) == Slice(a, start + 1, Min2(stop, Len(a)))

\* np.linspace(start, stop, num): num points from start to stop inclusive.
Linspace(start, stop, num) ==
  Arr([i \in 1..num |->
         IF num = 1 THEN start
         ELSE QAdd(start, QMul(Q(i - 1, num - 1), QSub(stop, start)))])

\* np.resize(a, n): a repeated cyclically up to n entries.
Resize(a, n) == Arr([i \in 1..n |-> a[((i - 1) % Len(a)) + 1]])

\* np.arange(start, stop, step) for step > 0.
Arange(start, stop, step) ==
  Arr([k \in 1..(IF stop > start THEN (stop - start + step - 1) \div step ELSE 0) |->
         start + (k - 1) * step])

\* The least j in lo..hi + 1 with x[j] >= xq (np.searchsorted, side left).
RECURSIVE FirstKnot(_, _, _, _)
FirstKnot(x, xq, lo, hi) ==
  IF lo > hi THEN lo
  ELSE LET mid == (lo + hi) \div 2
       IN  IF QLt(x[mid], xq) THEN FirstKnot(x, xq, mid + 1, hi)
           ELSE FirstKnot(x, xq, lo, mid - 1)

Identity(n) == Arr([k \in 1..n |-> k])

\* Piecewise-linear interpolation of the column y over the ascending knots x
\* at xq (scipy interp1d and, along azimuth, the degree-1 interp2d): the
\* upper knot hi is found as np.searchsorted does and clipped into 2..len.
UpperKnot(x, xq) ==
  LET j == FirstKnot(x, xq, 1, Len(x))
  IN  IF j < 2 THEN 2 ELSE IF j > Len(x) THEN Len(x) ELSE j

LinInterp(x, y, hi, xq) ==
  LET lo == hi - 1
      slope == QDiv(QSub(y[hi], y[lo]), QSub(x[hi], x[lo]))
  IN  QAdd(y[lo], QMul(slope, QSub(xq, x[lo])))

\* Whether every query lies in the span of the knots (interp1d raises
\* ValueError otherwise: bounds_error is on by default).
InBounds(x, xq) == \A i \in 1..Len(xq) : QLe(x[1], xq[i]) /\ QLe(xq[i], x[Len(x)])

(***************************************************************************)
(* Masked arrays: [d |-> rows of values, m |-> rows of mask flags].        *)
(***************************************************************************)
NoMask(rows) == Arr([i \in 1..Len(rows) |-> Arr([g \in 1..NumGates |-> FALSE])])

\* np.ma.masked_where(cond, a): the mask of a grows by cond.
MaskedWhere(cond, a) ==
  [d |-> a.d,
   m |-> Arr([i \in 1..Len(a.d) |-> Arr([g \in 1..Len(a.d[i]) |-> a.m[i][g] \/ cond[i][g]])])]

\* a.min() of a masked array: the least unmasked value, [any |-> FALSE] when
\* every entry is masked (numpy returns the constant `masked`).
MinOf(x, y) ==
  IF ~x.any THEN y ELSE IF ~y.any THEN x ELSE IF QLe(x.v, y.v) THEN x ELSE y

RECURSIVE MinGates(_, _, _)
MinGates(a, i, g) ==
  IF g = 0 THEN [any |-> FALSE, v |-> IntQ(0)]
  ELSE MinOf(IF a.m[i][g] THEN [any |-> FALSE, v |-> IntQ(0)]
             ELSE [any |-> TRUE, v |-> a.d[i][g]],
             MinGates(a, i, g - 1))

RECURSIVE MinRows(_, _, _)
MinRows(a, lo, hi) ==
  IF lo > hi THEN [any |-> FALSE, v |-> IntQ(0)]
  ELSE IF lo = hi THEN MinGates(a, lo, Len(a.d[lo]))
  ELSE LET mid == (lo + hi) \div 2
       IN  MinOf(MinRows(a, lo, mid), MinRows(a, mid + 1, hi))

MaskedMin(a) == MinRows(a, 1, Len(a.d))

\* np.ma.masked_equal(a, value): the mask of a grows by the entries equal to
\* value; comparing with the constant `masked` masks every entry.
MaskedEqual(a, value) ==
  [d |-> a.d,
   m |-> Arr([i \in 1..Len(a.d) |-> Arr([g \in 1..Len(a.d[i]) |->
            a.m[i][g] \/ ~value.any \/ a.d[i][g] = value.v])])]

\* np.ma.vstack(a3) of a (sweep, ray, gate) array: the sweeps' rays in one
\* (ray, gate) array, sweep after sweep.
VStack(a3) ==
  [d |-> Flatten([s \in 1..Len(a3) |-> a3[s].d]),
   m |-> Flatten([s \in 1..Len(a3) |-> a3[s].m])]

\* a.astype(dtype) of a masked array: the values converted, the mask kept.
AsTypeArr(a, dtype) ==
  [d |-> Arr([i \in 1..Len(a.d) |-> Arr([g \in 1..Len(a.d[i]) |-> AsType(a.d[i][g], dtype)])]),
   m |-> a.m]

(***************************************************************************)
(* The radar object.  azimuth, elevation and unambiguous_range hold one    *)
(* entry per ray; fields[f] = [dtype, data], data a masked (ray, gate)     *)
(* array; sweep s (numbered from 0) owns the rays                          *)
(* sweep_start_ray_index[s + 1] .. sweep_end_ray_index[s + 1], counted     *)
(* from 0.  The other variables are the locals of main, its position (pc,  *)
(* sweep, fld), and the history the properties refer to: run counts the    *)
(* calls of main, raw[k] is the radar object as call k received it,         *)
(* r_used collects the range array of every sweep of the current field.    *)
(***************************************************************************)
VARIABLES azimuth, elevation, fields, nrays, sweep_start_ray_index,
          sweep_end_ray_index, unambiguous_range, sweep_number,
          pc, sweep, fld, sweep_min, azimuth_final, az_final, ele_final,
          idx_final, field_final, field_type, azi, ele, az_idx, r, field,
          field_sorted, run, raw, r_used

radarVars == <<azimuth, elevation, fields, nrays, sweep_start_ray_index,
               sweep_end_ray_index>>
gridVars == <<azimuth_final, az_final, ele_final, idx_final>>
iterVars == <<azi, ele, az_idx, r, field, field_sorted>>
vars == <<azimuth, elevation, fields, nrays, sweep_start_ray_index,
          sweep_end_ray_index, unambiguous_range, sweep_number,
          pc, sweep, fld, sweep_min, azimuth_final, az_final, ele_final,
          idx_final, field_final, field_type, azi, ele, az_idx, r, field,
          field_sorted, run, raw, r_used>>

\* radar.range['data']: the distance of gate g.
Ranges == [g \in 1..NumGates |-> g]

\* radar.get_slice(sweep): the Python slice bounds of a sweep's rays.
SliceStart(s) == sweep_start_ray_index[s + 1]
SliceStop(s) == sweep_end_ray_index[s + 1] + 1

\* Cosine of the elevations the volumes use (0 and 60 degrees).
Cos(el) == IF el = IntQ(60) THEN Q(1, 2) ELSE IntQ(1)

\* x, y, _ = radar.get_gate_x_y_z(sweep); r = np.sqrt(x**2 + y**2): the
\* ground distance of every gate of every ray of the sweep, computed from the
\* ray's own elevation (range times its cosine).
GateRange(el) ==
  Arr([i \in 1..Len(el) |-> Arr([g \in 1..NumGates |-> QMul(IntQ(Ranges[g]), Cos(el[i]))])])

\* radar.get_field(sweep, f): the sweep's rays of the field.
GetField(s, f) ==
  [d |-> PySlice(fields[f].data.d, SliceStart(s), SliceStop(s)),
   m |-> PySlice(fields[f].data.m, SliceStart(s), SliceStop(s))]

DedupArr(a) == [d |-> Dedup(a.d), m |-> Dedup(a.m)]
TakeArr(a, idx) == [d |-> Take(a.d, idx), m |-> Take(a.m, idx)]
Column(rows, g) == Arr([i \in 1..Len(rows) |-> rows[i][g]])

\* interpolator(az_new) for an interpolator built over (x, rows): one row per
\* new azimuth, every gate interpolated along azimuth.
InterpRows(x, rows, az_new) ==
  LET col == Arr([g \in 1..NumGates |-> Column(rows, g)])
  IN  Arr([i \in 1..Len(az_new) |->
             LET hi == UpperKnot(x, az_new[i])
             IN  Arr([g \in 1..NumGates |-> LinInterp(x, col[g], hi, az_new[i])])])

RoundRows(rows) ==
  Arr([i \in 1..Len(rows) |-> Arr([g \in 1..Len(rows[i]) |-> Round3(rows[i][g])])])

\* r > max_range: a masking that spares the gate at the unambiguous range.
BeyondRangeM(rr, max_range) ==
  Arr([i \in 1..Len(rr) |-> Arr([g \in 1..Len(rr[i]) |-> QLt(max_range, rr[i][g])])])

\* r >= max_range, gate by gate.
BeyondRange(rr, max_range) ==
  Arr([i \in 1..Len(rr) |-> Arr([g \in 1..Len(rr[i]) |-> QLe(max_range, rr[i][g])])])

(***************************************************************************)
(* The steps of main.                                                      *)
(***************************************************************************)
NumSweeps == Len(sweep_number)

\* The sweep's azimuths (or elevations) with the duplicate ray removed.
SweepRays(a, s) == Dedup(PySlice(a, SliceStart(s), SliceStop(s)))

\* A homogenizer whose evenly spaced azimuths start at 0 degrees.
HomogenizeM(az_sorted, ele_sorted, idx, n) ==
  IF Len(az_sorted) # n
  THEN [az |-> Linspace(IntQ(0), az_sorted[Len(az_sorted)], n),
        ele |-> Resize(ele_sorted, n),
        idx |-> Arr([k \in 1..n |-> k])]
  ELSE [az |-> az_sorted, ele |-> ele_sorted, idx |-> idx]

\* A sweep whose ray count differs from the reference count n gets n evenly
\* spaced azimuths between its least and greatest one, its elevations
\* repeated cyclically, and the identity for an index array.
Homogenize(az_sorted, ele_sorted, idx, n) ==
  IF Len(az_sorted) # n
  THEN [az |-> Linspace(az_sorted[1], az_sorted[Len(az_sorted)], n),
        ele |-> Resize(ele_sorted, n),
        idx |-> Identity(n)]
  ELSE [az |-> az_sorted, ele |-> ele_sorted, idx |-> idx]

\* sweep_min = np.min(radar.sweep_number['data']); ranges = ...: fails on a
\* volume without sweeps.
Enter ==
  /\ pc = "entry"
  /\ IF NumSweeps = 0
     THEN /\ pc' = "error"
          /\ UNCHANGED <<sweep, sweep_min>>
     ELSE /\ pc' = "grid"
          /\ sweep' = 0
          /\ sweep_min' = sweep_number[1]
  /\ UNCHANGED <<radarVars, unambiguous_range, sweep_number, fld, gridVars,
                 field_final, field_type, iterVars, run, raw, r_used>>

\* One iteration of the first loop: the azimuth and elevation grid of a sweep.
GridSweep ==
  /\ pc = "grid"
  /\ LET azi1 == SweepRays(azimuth, sweep)
         ele1 == SweepRays(elevation, sweep)
         idx == ArgSort(azi1)
         ref == IF sweep = sweep_min THEN azi1 ELSE azimuth_final
         h == Homogenize(Take(azi1, idx), Take(ele1, idx), idx, Len(ref))
     IN  /\ azi' = azi1
         /\ ele' = ele1
         /\ az_idx' = h.idx
         /\ azimuth_final' = ref
         /\ az_final' = IF sweep = sweep_min THEN <<h.az>> ELSE Append(az_final, h.az)
         /\ ele_final' = IF sweep = sweep_min THEN <<h.ele>> ELSE Append(ele_final, h.ele)
         /\ idx_final' = IF sweep = sweep_min THEN <<h.idx>> ELSE Append(idx_final, h.idx)
  /\ IF sweep + 1 < NumSweeps
     THEN /\ sweep' = sweep + 1
          /\ UNCHANGED <<pc, fld>>
     ELSE /\ sweep' = 0
          /\ fld' = 1
          /\ pc' = "field"
  /\ UNCHANGED <<radarVars, unambiguous_range, sweep_number, sweep_min,
                 field_final, field_type, r, field, field_sorted, run, raw, r_used>>

\* A resampler that never interpolates.
ResampleM(azi_sorted, rr, fs, grid, n) == [r |-> rr, f |-> fs]

\* The range and the field of a sweep on the sweep's grid: as sorted when the
\* ray count is the reference count, interpolated at the grid's azimuths (the
\* field rounded to 3 decimals, its mask lost) otherwise.
Resample(azi_sorted, rr, fs, grid, n) ==
  IF Len(fs.d) # n
  THEN [r |-> InterpRows(azi_sorted, rr, grid),
        f |-> [d |-> RoundRows(InterpRows(azi_sorted, fs.d, grid)),
               m |-> NoMask(grid)]]
  ELSE [r |-> rr, f |-> fs]

\* The two maskings of a sweep: the gates at or beyond the unambiguous range,
\* then the gates that hold the least value left.
MaskSweep(rr, max_range, fs) ==
  LET ranged == MaskedWhere(BeyondRange(rr, max_range), fs)
  IN  MaskedEqual(ranged, MaskedMin(ranged))

\* One iteration of the inner loop of the second loop: one sweep of one field.
\* It fails when the sweep has no entry of unambiguous_range.
FieldSweep ==
  /\ pc = "field"
  /\ LET r1 == Dedup(GateRange(PySlice(elevation, SliceStart(sweep), SliceStop(sweep))))
         field1 == DedupArr(GetField(sweep, fld))
         ur == PySlice(unambiguous_range, SliceStart(sweep), SliceStop(sweep))
         azi1 == SweepRays(azimuth, sweep)
         idx == ArgSort(azi1)
         azi_sorted == Take(azi1, idx)
         res == Resample(azi_sorted, r1, TakeArr(field1, idx), az_final[sweep + 1],
                         Len(az_final[1]))
         masked == MaskSweep(res.r, ur[1], res.f)
     IN  IF ur = <<>>
            \/ (Len(field1.d) # Len(az_final[1]) /\ ~InBounds(azi_sorted, az_final[sweep + 1]))
         THEN /\ pc' = "error"
              /\ field_type' = fields[fld].dtype
              /\ UNCHANGED <<sweep, iterVars, field_final, r_used>>
         ELSE /\ field_type' = fields[fld].dtype
              /\ azi' = azi1
              /\ az_idx' = idx
              /\ r' = res.r
              /\ field' = field1
              /\ field_sorted' = masked
              /\ field_final' = IF sweep = sweep_min THEN <<masked>>
                                ELSE Append(field_final, masked)
              /\ r_used' = IF sweep = sweep_min THEN <<res.r>> ELSE Append(r_used, res.r)
              /\ UNCHANGED ele
              /\ IF sweep + 1 < NumSweeps
                 THEN /\ sweep' = sweep + 1
                      /\ pc' = pc
                 ELSE /\ sweep' = 0
                      /\ pc' = "store"
  /\ UNCHANGED <<radarVars, unambiguous_range, sweep_number, fld, sweep_min,
                 gridVars, run, raw>>

\* radar.fields[f]['data'] = the stacked sweeps in the field's type, the least
\* value left in the whole field masked too.
StoreField(a3, dtype) ==
  LET stacked == AsTypeArr(VStack(a3), dtype)
  IN  MaskedEqual(stacked, MaskedMin(stacked))

FieldStore ==
  /\ pc = "store"
  /\ fields' = [fields EXCEPT ![fld].data = StoreField(field_final, field_type)]
  /\ IF fld < NumFields
     THEN /\ fld' = fld + 1
          /\ pc' = "field"
     ELSE /\ pc' = "angles"
          /\ fld' = fld
  /\ UNCHANGED <<azimuth, elevation, nrays, sweep_start_ray_index,
                 sweep_end_ray_index, unambiguous_range, sweep_number, sweep,
                 sweep_min, gridVars, field_final, field_type, iterVars, run,
                 raw, r_used>>

AsTypeSeq(a, dtype) == Arr([i \in 1..Len(a) |-> AsType(a[i], dtype)])

\* overwrite the azimuth, elevation and number of rays arrays
WriteAngles ==
  /\ pc = "angles"
  /\ azimuth' = AsTypeSeq(Flatten(az_final), field_type)
  /\ elevation' = AsTypeSeq(Flatten(ele_final), field_type)
  /\ nrays' = Len(azimuth')
  /\ pc' = "index"
  /\ UNCHANGED <<fields, sweep_start_ray_index, sweep_end_ray_index,
                 unambiguous_range, sweep_number, sweep, fld, sweep_min,
                 gridVars, field_final, field_type, iterVars, run, raw, r_used>>

\* overwrite the ray indexes arrays: the end table starts from the second
\* entry of the new start table, which a volume of one sweep does not have
\* (IndexError after the start table is written).
WriteIndex ==
  /\ pc = "index"
  /\ sweep_start_ray_index' = Arange(0, Len(azimuth), Len(az_final[1]))
  /\ IF Len(sweep_start_ray_index') < 2
     THEN /\ pc' = "error"
          /\ UNCHANGED sweep_end_ray_index
     ELSE /\ sweep_end_ray_index' =
               Arange(sweep_start_ray_index'[2] - 1, Len(azimuth), Len(az_final[1]))
          /\ pc' = "done"
  /\ UNCHANGED <<azimuth, elevation, fields, nrays, unambiguous_range,
                 sweep_number, sweep, fld, sweep_min, gridVars, field_final,
                 field_type, iterVars, run, raw, r_used>>

\* The radar object as a call of main receives it.
Snapshot ==
  [azimuth |-> azimuth, elevation |-> elevation, fields |-> fields,
   nrays |-> nrays, sweep_start_ray_index |-> sweep_start_ray_index,
   sweep_end_ray_index |-> sweep_end_ray_index]

\* main is called again on the radar object it returned.
Rerun ==
  /\ pc = "done"
  /\ run < MaxRuns
  /\ run' = run + 1
  /\ raw' = Append(raw, Snapshot)
  /\ pc' = "entry"
  /\ UNCHANGED <<radarVars, unambiguous_range, sweep_number, sweep, fld,
                 sweep_min, gridVars, field_final, field_type, iterVars, r_used>>

Next ==
  \/ Enter
  \/ GridSweep
  \/ FieldSweep
  \/ FieldStore
  \/ WriteAngles
  \/ WriteIndex
  \/ Rerun

(***************************************************************************)
(* The volumes main is called on.  A sweep has at least two rays; its      *)
(* azimuths are multiples of half a degree in one of four orders; the      *)
(* elevation is constant per sweep or wobbles from ray to ray; every gate  *)
(* of a sweep holds a value of its own, and the first gate of the first    *)
(* ray of every sweep of field 1 is masked and holds the fill value.  The  *)
(* unambiguous range differs from sweep to sweep.  A sweep that has to be  *)
(* interpolated has distinct azimuths, as scipy's interpolators require of *)
(* their knots.                                                            *)
(***************************************************************************)
Orders == {"asc", "desc", "rot", "dup"}
ElevModes == {"const", "wobble"}
DTypes == {"float64", "int32"}
FillValue == IntQ(-9)

\* The i-th least azimuth of a sweep.
AzBase(i) == Q(i, 2)

SweepAzimuth(c, order) ==
  Arr([i \in 1..c |->
         AzBase(CASE order = "asc" -> i
                  [] order = "desc" -> c + 1 - i
                  [] order = "rot" -> (i % c) + 1
                  [] OTHER -> IF i = c THEN 1 ELSE c - i)])

SweepElevation(c, s, mode) ==
  Arr([i \in 1..c |->
         IF mode = "const" THEN IntQ(60 * (s % 2)) ELSE IntQ(60 * ((i + s) % 2))])

SweepField(c, s, f) ==
  [d |-> Arr([i \in 1..c |-> Arr([g \in 1..NumGates |->
            IF f = 1 /\ i = 1 /\ g = 1 THEN FillValue
            ELSE IntQ((i - 1) * NumGates + g + s + f)])]),
   m |-> Arr([i \in 1..c |-> Arr([g \in 1..NumGates |-> f = 1 /\ i = 1 /\ g = 1])])]

SweepUnambiguous(c, s) == Arr([i \in 1..c |-> IntQ(NumGates + 1 - (s % 2))])

RECURSIVE Starts(_, _)
Starts(counts, s) == IF s = 1 THEN 0 ELSE Starts(counts, s - 1) + counts[s - 1]

Distinct(a) == \A i, j \in 1..Len(a) : a[i] = a[j] => i = j

\* Every sweep that has to be interpolated has distinct azimuths.
Interpolable(counts, orders) ==
  \A s \in 1..Len(counts) :
    Len(Dedup(Identity(counts[s]))) # Len(Dedup(Identity(counts[1])))
      => Distinct(Dedup(SweepAzimuth(counts[s], orders[s])))

InitVolume(counts, orders, mode, lastType) ==
  LET n == Len(counts)
  IN  /\ sweep_number = [s \in 1..n |-> s - 1]
      /\ azimuth = Flatten([s \in 1..n |-> SweepAzimuth(counts[s], orders[s])])
      /\ elevation = Flatten([s \in 1..n |-> SweepElevation(counts[s], s - 1, mode)])
      /\ fields = [f \in 1..NumFields |->
                     [dtype |-> IF f = NumFields THEN lastType ELSE "float64",
                      data |-> VStack([s \in 1..n |-> SweepField(counts[s], s - 1, f)])]]
      /\ nrays = Len(azimuth)
      /\ sweep_start_ray_index = [s \in 1..n |-> Starts(counts, s)]
      /\ sweep_end_ray_index = [s \in 1..n |-> Starts(counts, s) + counts[s] - 1]
      /\ unambiguous_range = Flatten([s \in 1..n |-> SweepUnambiguous(counts[s], s - 1)])
      /\ pc = "entry"
      /\ sweep = 0
      /\ fld = 0
      /\ sweep_min = 0
      /\ azimuth_final = <<>>
      /\ az_final = <<>>
      /\ ele_final = <<>>
      /\ idx_final = <<>>
      /\ field_final = <<>>
      /\ field_type = "none"
      /\ azi = <<>>
      /\ ele = <<>>
      /\ az_idx = <<>>
      /\ r = <<>>
      /\ field = <<>>
      /\ field_sorted = <<>>
      /\ run = 1
      /\ raw = <<Snapshot>>
      /\ r_used = <<>>

\* Volumes of 0..MaxSweeps sweeps: the lowest sweep has c0 rays in order o0,
\* every higher sweep c1 rays in order o1.
Init ==
  \E n \in 0..MaxSweeps :
    \E c0, c1 \in 2..MaxRays, o0, o1 \in Orders :
      \E mode \in ElevModes, lastType \in DTypes :
        /\ Interpolable([s \in 1..n |-> IF s = 1 THEN c0 ELSE c1],
                        [s \in 1..n |-> IF s = 1 THEN o0 ELSE o1]) = TRUE
        /\ InitVolume([s \in 1..n |-> IF s = 1 THEN c0 ELSE c1],
                      [s \in 1..n |-> IF s = 1 THEN o0 ELSE o1], mode, lastType)

Spec == Init /\ [][Next]_vars

(***************************************************************************)
(* Full-circle volumes: two sweeps of about 360 rays each, with and        *)
(* without the duplicate 361st ray.                                        *)
(***************************************************************************)
FullCounts == {DuplicateRays - 1, DuplicateRays, DuplicateRays + 1}

InitFull ==
  \E c0, c1 \in FullCounts :
    InitVolume(<<c0, c1>>, <<"rot", "desc">>, "wobble", "float64")

SpecFull == InitFull /\ [][Next]_vars

\* The volumes of both kinds.
SpecAll == (Init \/ InitFull) /\ [][Next]_vars

(***************************************************************************)
(* What the properties speak about.  Raw is the radar object as the        *)
(* current call of main received it; sweeps are numbered from 0, rays and  *)
(* gates from 1.                                                           *)
(***************************************************************************)
Raw == raw[run]

\* The rays of sweep s in a per-ray array of the input.
RawSweep(a, s) ==
  SubSeq(a, Raw.sweep_start_ray_index[s + 1] + 1, Raw.sweep_end_ray_index[s + 1] + 1)

\* The ray count of sweep s once the duplicate 361st ray is dropped.
RayCount(s) ==
  LET c == Len(RawSweep(Raw.azimuth, s))
  IN  IF c = 361 THEN 360 ELSE c

RefCount == RayCount(0)

Sweeps == 0..(NumSweeps - 1)

\* The rays of sweep s in a per-ray array of the output.
OutSweep(a, s) == SubSeq(a, s * RefCount + 1, (s + 1) * RefCount)

NonDecreasing(a) == \A i \in 1..(Len(a) - 1) : QLe(a[i], a[i + 1])

\* C1: when main has completed, the azimuths written back for every sweep
\* are non-decreasing, and there are as many of them as the lowest sweep has
\* rays after de-duplication.
C1_AzimuthSorted ==
  pc = "done" =>
    /\ Len(azimuth) = NumSweeps * RefCount
    /\ \A s \in Sweeps : NonDecreasing(OutSweep(azimuth, s))

\* A call has completed on a volume with an unsorted sweep and a sweep whose
\* ray count is not the reference count.
C1_Witness ==
  /\ pc = "done"
  /\ \E s \in Sweeps : ~NonDecreasing(RawSweep(Raw.azimuth, s))
  /\ \E s \in Sweeps : RayCount(s) # RefCount

\* The np.ndarray.shape of a stored (ray, gate) array, and of the stack of
\* sweeps it is built from.
Shape(a) == <<Len(a.d), Len(a.d[1])>>
StackShape(a3) == <<Len(a3), Len(a3[1].d), Len(a3[1].d[1])>>

\* C2 as the specification states it: when main has completed, the data of
\* every field has the three-dimensional shape (sweep_count,
\* reference_ray_count, range_count).
C2_ShapeThreeAxes ==
  pc = "done" =>
    \A f \in 1..NumFields : Shape(fields[f].data) = <<NumSweeps, RefCount, NumGates>>

\* C2: when main has completed, the data (and the mask) of every field has
\* the two-dimensional shape (sweep_count x reference_ray_count, range_count);
\* the stack of sweeps it is built from has one entry per sweep, each of
\* exactly reference_ray_count rays of range_count gates.
C2_ShapeStacked ==
  /\ pc = "store" =>
       /\ StackShape(field_final) = <<NumSweeps, RefCount, NumGates>>
       /\ \A s \in Sweeps : Shape(field_final[s + 1]) = <<RefCount, NumGates>>
  /\ pc = "done" =>
       \A f \in 1..NumFields :
         /\ Shape(fields[f].data) = <<NumSweeps * RefCount, NumGates>>
         /\ Len(fields[f].data.m) = NumSweeps * RefCount
         /\ \A k \in 1..(NumSweeps * RefCount) : Len(fields[f].data.m[k]) = NumGates

\* A call has completed on a volume one sweep of which had to be interpolated
\* to the reference count.
C2_Witness ==
  /\ pc = "done"
  /\ NumSweeps >= 2
  /\ \E s \in Sweeps : RayCount(s) # RefCount
  /\ Shape(fields[1].data) = <<NumSweeps * RefCount, NumGates>>

\* All the sweeps of a radar object have the ray count of the lowest one.
Homogeneous(radar) ==
  \A s \in 1..Len(radar.sweep_start_ray_index) :
    radar.sweep_end_ray_index[s] - radar.sweep_start_ray_index[s]
      = radar.sweep_end_ray_index[1] - radar.sweep_start_ray_index[1]

\* C3: when main is called on a volume whose sweeps all have the reference
\* ray count and called again on the result, the second call leaves azimuth,
\* elevation and every field's values and mask as the first call produced
\* them.
C3_Idempotent ==
  (pc = "done" /\ run = 2 /\ Homogeneous(raw[1])) =>
    /\ azimuth = raw[2].azimuth
    /\ elevation = raw[2].elevation
    /\ \A f \in 1..NumFields :
         /\ fields[f].data.d = raw[2].fields[f].data.d
         /\ fields[f].data.m = raw[2].fields[f].data.m

\* C4: on every volume of at least one sweep main completes, with nrays =
\* sweep_count x reference_ray_count, the start table k x reference_ray_count
\* and the end table (k + 1) x reference_ray_count - 1 for k = 0 ..
\* sweep_count - 1.
C4_IndexTables ==
  (NumSweeps >= 1 /\ pc \in {"done", "error"}) =>
    /\ pc = "done"
    /\ nrays = NumSweeps * RefCount
    /\ sweep_start_ray_index = [k \in 1..NumSweeps |-> (k - 1) * RefCount]
    /\ sweep_end_ray_index = [k \in 1..NumSweeps |-> k * RefCount - 1]

\* C6: when main fails, the fields, azimuth, elevation, nrays and the two
\* index tables are all as the call received them.
C6_NoPartialOutput == pc = "error" => Snapshot = Raw

\* Field f has just been stored: field_final and r_used are those of f.
Stored(f) ==
  \/ pc = "field" /\ sweep = 0 /\ fld = f + 1
  \/ pc = "angles" /\ fld = f

\* The unambiguous range of the first ray of sweep s.
MaxRangeOf(s) == unambiguous_range[Raw.sweep_start_ray_index[s + 1] + 1]

Gates(s) == (1..RefCount) \X (1..NumGates)

\* The output row of ray i of sweep s.
RowOf(s, i) == s * RefCount + i

\* The range computed for gate g of output ray i of sweep s is at or beyond
\* the sweep's unambiguous range.
Beyond(s, i, g) == QLe(MaxRangeOf(s), r_used[s + 1][i][g])

\* The gate was masked on input; an interpolated sweep has no masked gate.
InputMasked(f, s, i, g) ==
  /\ RayCount(s) = RefCount
  /\ RawSweep(Raw.fields[f].data.m, s)[idx_final[s + 1][i]][g]

\* In range and not masked on input.
Open(f, s, i, g) == ~Beyond(s, i, g) /\ ~InputMasked(f, s, i, g)

\* The gate holds the least value of the open gates of its sweep.
SweepLeast(f, s, i, g) ==
  /\ Open(f, s, i, g)
  /\ \A q \in Gates(s) :
       Open(f, s, q[1], q[2]) => QLe(field_final[s + 1].d[i][g], field_final[s + 1].d[q[1]][q[2]])

Left(f, s, i, g) == Open(f, s, i, g) /\ ~SweepLeast(f, s, i, g)

\* The gate holds the least stored value of the gates left in the whole field.
FieldLeast(f, s, i, g) ==
  /\ Left(f, s, i, g)
  /\ \A s2 \in Sweeps : \A q \in Gates(s2) :
       Left(f, s2, q[1], q[2])
         => QLe(fields[f].data.d[RowOf(s, i)][g], fields[f].data.d[RowOf(s2, q[1])][q[2]])

GridDone(s) ==
  \/ pc = "grid" /\ sweep = s + 1
  \/ pc = "field" /\ fld = 1 /\ sweep = 0 /\ s = NumSweeps - 1

FieldDone(s) ==
  \/ pc = "field" /\ sweep = s + 1
  \/ pc = "store" /\ s = NumSweeps - 1

\* An array of exactly 361 rays loses its last ray, any other keeps them all.
FirstRays(a) == IF Len(a) = 361 THEN SubSeq(a, 1, 360) ELSE a

\* C7: the azimuth, elevation, range and field arrays a sweep is processed
\* with are the sweep's input arrays without their last ray when there are
\* exactly 361 rays, and the input arrays themselves otherwise, in the grid
\* pass and in the field pass alike, so that they keep equal ray counts.
C7_Dedup ==
  \A s \in Sweeps :
    /\ GridDone(s) =>
         /\ azi = FirstRays(RawSweep(Raw.azimuth, s))
         /\ ele = FirstRays(RawSweep(Raw.elevation, s))
         /\ Len(az_idx) = RefCount
    /\ FieldDone(s) =>
         /\ azi = FirstRays(RawSweep(Raw.azimuth, s))
         /\ field.d = FirstRays(RawSweep(Raw.fields[fld].data.d, s))
         /\ field.m = FirstRays(RawSweep(Raw.fields[fld].data.m, s))
         /\ Len(field.d) = Len(azi)
         /\ Len(az_idx) = Len(azi)
         /\ RayCount(s) = RefCount
              => r = FirstRays(GateRange(RawSweep(Raw.elevation, s)))

\* The field iteration of a sweep delivered with 361 rays has ended in a
\* volume that also has a sweep of 362 rays.
C7_Witness ==
  \E s \in Sweeps :
    /\ FieldDone(s)
    /\ Len(RawSweep(Raw.azimuth, s)) = 361
    /\ Len(azi) = 360
    /\ Len(field.d) = 360
    /\ \E t \in Sweeps : Len(RawSweep(Raw.azimuth, t)) = 362

\* The one-to-one assignments of n input rays to n output rays.
Perms(n) == {p \in [1..n -> 1..n] : \A i, j \in 1..n : p[i] = p[j] => i = j}

\* C8: when main has completed, every sweep that had the reference ray count
\* is a permutation of its input rays: one assignment of input rays to output
\* rays gives every output ray the azimuth, the elevation and every field's
\* gate values of its input ray.
C8_SortPairing ==
  pc = "done" =>
    \A s \in Sweeps : RayCount(s) = RefCount =>
      \E p \in Perms(RefCount) : \A i \in 1..RefCount :
        /\ OutSweep(azimuth, s)[i] = RawSweep(Raw.azimuth, s)[p[i]]
        /\ OutSweep(elevation, s)[i] = RawSweep(Raw.elevation, s)[p[i]]
        /\ \A f \in 1..NumFields :
             OutSweep(fields[f].data.d, s)[i] = RawSweep(Raw.fields[f].data.d, s)[p[i]]

\* C9: after the field iteration of a sweep of the reference ray count, the
\* range of output ray i is the range of the input ray whose field values
\* are at output ray i.
C9_RangeReordered ==
  \A s \in Sweeps : (FieldDone(s) /\ RayCount(s) = RefCount) =>
    \A i \in 1..Len(r) : r[i] = GateRange(RawSweep(Raw.elevation, s))[az_idx[i]]

\* The azimuth grids of the current call are complete.
GridBuilt == pc \in {"field", "store", "angles", "index", "done"}

Occurrences(a, v) == Cardinality({i \in DOMAIN a : a[i] = v})

\* C10: the azimuth grid of a sweep whose ray count differs from the reference
\* count has the reference length, starts at the sweep's least azimuth, ends
\* at its greatest and has equal steps; the grid of a sweep of the reference
\* count is the sweep's azimuths in non-decreasing order.
C10_Grid ==
  GridBuilt =>
    \A s \in Sweeps :
      LET a == az_final[s + 1]
          in == FirstRays(RawSweep(Raw.azimuth, s))
      IN  /\ Len(a) = RefCount
          /\ IF RayCount(s) # RefCount
             THEN /\ \E j \in DOMAIN in : a[1] = in[j]
                  /\ \E j \in DOMAIN in : a[RefCount] = in[j]
                  /\ \A j \in DOMAIN in : QLe(a[1], in[j]) /\ QLe(in[j], a[RefCount])
                  /\ \A i \in 1..(RefCount - 1) :
                       QMul(QSub(a[i + 1], a[i]), IntQ(RefCount - 1)) = QSub(a[RefCount], a[1])
                  /\ \A i \in 1..RefCount : QLe(a[1], a[i]) /\ QLe(a[i], a[RefCount])
             ELSE /\ NonDecreasing(a)
                  /\ \A j \in DOMAIN in : Occurrences(a, in[j]) = Occurrences(in, in[j])

\* The grids are complete in a volume with an unsorted sweep of fewer rays
\* than the reference count, or with one of more rays, whose grid has three
\* azimuths or more.
C10_Witness ==
  /\ GridBuilt
  /\ RefCount >= 3
  /\ \E s \in Sweeps :
       /\ RayCount(s) < RefCount
       /\ ~NonDecreasing(RawSweep(Raw.azimuth, s))
       /\ az_final[s + 1][1] # az_final[s + 1][2]

====
